---- MODULE Spec2Model ----
(***************************************************************************)
(* Voice-journal retrieval core: the hybrid retriever (main.py,            *)
(* retriever.py), the full and incremental indexers (indexer.py,           *)
(* incremental_indexer.py) and the rebuild supervisor (app.py).            *)
(*                                                                         *)
(* Text is a sequence of one-symbol strings; every symbol stands for one   *)
(* character of the Python string.  A date is a record [y, m, d]; a        *)
(* datetime carries a time of day tod (0 = midnight, 1 = later that day).  *)
(***************************************************************************)
EXTENDS Integers, Sequences, FiniteSets, TLC

VARIABLES
    clock,       \* wall clock, in minutes (generate_id resolution)
    records,     \* voice_records.json
    convs,       \* conversations.json (ids)
    chunks,      \* all_chunks.json
    diskIndex,   \* my_history.index: <<>> when the file is absent
    diskMeta,    \* chunks_metadata.json
    hasIndex,    \* my_history.index exists
    hasMeta,     \* chunks_metadata.json exists
    indexedIds,  \* .indexed_ids.json
    flag,        \* .need_reindex exists
    status,      \* .index_status.json
    jobs,        \* scheduler / background-task jobs and their children
    retr,        \* main._local_retriever
    rres,        \* the last call_retriever call: its inputs and its result
    hist,        \* history of deletions / ingests settled by a finished run
    dres,        \* the last date-filter parse: its inputs and its result
    agent,       \* chat_with_agent: position, responses, call counts, answer
    script,      \* process_voice.py: position, its record, the records it read
    reader,      \* check_and_rebuild_index.read_output: lines to read, last_progress
    cache        \* EmbeddingClient: _cache in dict order, last uses, counters

\* the state of the unit specifications
unitVars == <<dres, agent, script, reader, cache>>

vars == <<clock, records, convs, chunks, diskIndex, diskMeta, hasIndex,
          hasMeta, indexedIds, flag, status, jobs, retr, rres, hist, unitVars>>

pipeVars == <<clock, records, convs, chunks, diskIndex, diskMeta, hasIndex,
              hasMeta, indexedIds, flag, status, jobs, hist, unitVars>>

(***************************************************************************)
(* Bounds of the model.                                                    *)
(***************************************************************************)
MaxMeta == 2
MaxK == 2
MaxClock == 1
MaxJobs == 2
MaxDist == 2

(***************************************************************************)
(* Generic sequence helpers.                                               *)
(***************************************************************************)
Min2(a, b) == IF a <= b THEN a ELSE b

Take(s, n) == SubSeq(s, 1, Min2(n, Len(s)))

Range(s) == {s[i] : i \in 1..Len(s)}

RECURSIVE SeqsUpTo(_, _)
SeqsUpTo(S, n) ==
    IF n = 0 THEN {<<>>}
    ELSE LET prev == SeqsUpTo(S, n - 1)
         IN  prev \cup {Append(p, x) : p \in {q \in prev : Len(q) = n - 1}, x \in S}

(***************************************************************************)
(* Python str operations on texts.                                         *)
(***************************************************************************)
SP == " "

\* str.lower(): the alphabet has one cased letter, "A" / "a"
LowerCh(c) == IF c = "A" THEN "a" ELSE c

Lower(s) == [i \in 1..Len(s) |-> LowerCh(s[i])]

\* needle in hay
Contains(hay, needle) ==
    \E i \in 0..(Len(hay) - Len(needle)) :
        \A j \in 1..Len(needle) : hay[i + j] = needle[j]

RECURSIVE LStrip(_)
LStrip(s) == IF s # <<>> /\ Head(s) = SP THEN LStrip(Tail(s)) ELSE s

RECURSIVE RStrip(_)
RStrip(s) ==
    IF s # <<>> /\ s[Len(s)] = SP THEN RStrip(SubSeq(s, 1, Len(s) - 1)) ELSE s

\* str.strip()
Strip(s) == RStrip(LStrip(s))

\* str.split(): whitespace-separated non-empty tokens, in order
RECURSIVE SplitAcc(_, _, _)
SplitAcc(s, cur, acc) ==
    IF s = <<>> THEN (IF cur = <<>> THEN acc ELSE Append(acc, cur))
    ELSE IF Head(s) = SP
         THEN SplitAcc(Tail(s), <<>>, IF cur = <<>> THEN acc ELSE Append(acc, cur))
         ELSE SplitAcc(Tail(s), Append(cur, Head(s)), acc)

Split(s) == SplitAcc(s, <<>>, <<>>)

\* max(tokens, key=len): the first token of maximal length
RECURSIVE LongestOf(_, _)
LongestOf(toks, best) ==
    IF toks = <<>> THEN best
    ELSE LongestOf(Tail(toks), IF Len(Head(toks)) > Len(best) THEN Head(toks) ELSE best)

(***************************************************************************)
(* Calendar: datetime, timedelta and datetime.replace of the Python        *)
(* standard library.  Day numbers count from BaseYear-01-01.               *)
(***************************************************************************)
BaseYear == 2020

IsLeap(y) == (y % 4 = 0 /\ y % 100 # 0) \/ y % 400 = 0

DaysInYear(y) == IF IsLeap(y) THEN 366 ELSE 365

DaysInMonth(y, m) ==
    IF m = 2 THEN (IF IsLeap(y) THEN 29 ELSE 28)
    ELSE IF m \in {4, 6, 9, 11} THEN 30 ELSE 31

ValidDate(y, m, d) == y >= BaseYear /\ m \in 1..12 /\ d \in 1..DaysInMonth(y, m)

RECURSIVE DaysBeforeYear(_)
DaysBeforeYear(y) == IF y <= BaseYear THEN 0 ELSE DaysBeforeYear(y - 1) + DaysInYear(y - 1)

RECURSIVE DaysBeforeMonth(_, _)
DaysBeforeMonth(y, m) == IF m <= 1 THEN 0 ELSE DaysBeforeMonth(y, m - 1) + DaysInMonth(y, m - 1)

DayNum(y, m, d) == DaysBeforeYear(y) + DaysBeforeMonth(y, m) + (d - 1)

RECURSIVE YmdFrom(_, _, _)
YmdFrom(n, y, m) ==
    IF m = 0
    THEN (IF n >= DaysInYear(y) THEN YmdFrom(n - DaysInYear(y), y + 1, 0)
          ELSE YmdFrom(n, y, 1))
    ELSE (IF n >= DaysInMonth(y, m) THEN YmdFrom(n - DaysInMonth(y, m), y, m + 1)
          ELSE [y |-> y, m |-> m, d |-> n + 1])

\* the date with day number n (n >= 0)
FromDayNum(n) == YmdFrom(n, BaseYear, 0)

\* a date value of a record: "YYYY-MM-DD", or null
NoDate == [y |-> 0, m |-> 0, d |-> 0]

Date(y, m, d) == [y |-> y, m |-> m, d |-> d]

\* a datetime: a date and a time of day
DT(y, m, d, tod) == [y |-> y, m |-> m, d |-> d, tod |-> tod]

DateOf(dt) == [y |-> dt.y, m |-> dt.m, d |-> dt.d]

Midnight(date) == [y |-> date.y, m |-> date.m, d |-> date.d, tod |-> 0]

\* datetime - timedelta(days=k)
MinusDays(dt, k) ==
    LET r == FromDayNum(DayNum(dt.y, dt.m, dt.d) - k)
    IN  [y |-> r.y, m |-> r.m, d |-> r.d, tod |-> dt.tod]

\* datetime.weekday(): Monday is 0; BaseYear-01-01 is a Wednesday
Weekday(dt) == (DayNum(dt.y, dt.m, dt.d) + 2) % 7

\* order of datetimes
DtKey(dt) == ((dt.y * 100 + dt.m) * 100 + dt.d) * 2 + dt.tod

DtLE(a, b) == DtKey(a) <= DtKey(b)

(***************************************************************************)
(* Date filters.  The filter string is kept as its recognised shape:       *)
(*   none       None, "" or "None"                                         *)
(*   today, yesterday, last_week, last_month, last_year                    *)
(*   days_ago   "<n>_days_ago"         months_ago  "<n>_months_ago"        *)
(*   ymd        "YYYY-MM-DD"           y           "YYYY"                  *)
(*   ym         "YYYY-MM", or "YYYY-M" when pad = FALSE                    *)
(*   dekad      "YYYY-MM-<part>", d = 1, 2, 3 for the three dekads         *)
(*   junk       any other text                                             *)
(***************************************************************************)
Flt(k, y, m, d, n, pad) == [k |-> k, y |-> y, m |-> m, d |-> d, n |-> n, pad |-> pad]

FNone == Flt("none", 0, 0, 0, 0, TRUE)

FYmd(date) == Flt("ymd", date.y, date.m, date.d, 0, TRUE)

NoRange == [ok |-> FALSE, s |-> DT(0, 0, 0, 0), e |-> DT(0, 0, 0, 0)]

Rng(s, e) == [ok |-> TRUE, s |-> s, e |-> e]

\* the last day of month m of year y, at midnight
MonthEnd(y, m) == DT(y, m, DaysInMonth(y, m), 0)

\* start_date of N_months_ago: n times replace(month=month-1) keeping the
\* day, which raises ValueError when the day does not exist in that month
RECURSIVE MonthsBack(_, _)
MonthsBack(dt, n) ==
    IF n <= 0 THEN [ok |-> TRUE, v |-> dt]
    ELSE LET py == IF dt.m = 1 THEN dt.y - 1 ELSE dt.y
             pm == IF dt.m = 1 THEN 12 ELSE dt.m - 1
         IN  IF ValidDate(py, pm, dt.d)
             THEN MonthsBack([dt EXCEPT !.y = py, !.m = pm], n - 1)
             ELSE [ok |-> FALSE, v |-> dt]

\* VectorRetriever._parse_date_filter
ParseDateFilter(f, now) ==
    CASE f.k = "none" -> NoRange
      [] f.k = "last_year" ->
            Rng(DT(now.y - 1, 1, 1, now.tod), DT(now.y - 1, 12, 31, now.tod))
      [] f.k = "last_month" ->
            LET py == IF now.m = 1 THEN now.y - 1 ELSE now.y
                pm == IF now.m = 1 THEN 12 ELSE now.m - 1
            IN  Rng(DT(py, pm, 1, now.tod),
                    IF now.m = 1 THEN DT(now.y - 1, 12, 31, now.tod)
                    ELSE MinusDays(DT(now.y, now.m, 1, now.tod), 1))
      [] f.k = "last_week" ->
            LET e == MinusDays(now, Weekday(now) + 1)
            IN  Rng(MinusDays(e, 6), e)
      [] f.k = "months_ago" ->
            LET back == MonthsBack(now, f.n)
            IN  IF back.ok
                THEN Rng([back.v EXCEPT !.d = 1], MinusDays(now, 1))
                ELSE NoRange
      [] f.k = "days_ago" -> Rng(MinusDays(now, f.n - 1), now)
      [] f.k = "ymd" ->
            IF ValidDate(f.y, f.m, f.d)
            THEN Rng(DT(f.y, f.m, f.d, 0), DT(f.y, f.m, f.d, 0))
            ELSE NoRange
      [] f.k = "ym" ->
            IF f.m \in 1..12 THEN Rng(DT(f.y, f.m, 1, 0), MonthEnd(f.y, f.m)) ELSE NoRange
      [] f.k = "dekad" ->
            IF f.m \in 1..12
            THEN CASE f.d = 1 -> Rng(DT(f.y, f.m, 1, 0), DT(f.y, f.m, 10, 0))
                   [] f.d = 2 -> Rng(DT(f.y, f.m, 11, 0), DT(f.y, f.m, 20, 0))
                   [] OTHER -> Rng(DT(f.y, f.m, 21, 0), MonthEnd(f.y, f.m))
            ELSE NoRange
      [] f.k = "y" ->
            IF f.y >= 1900 /\ f.y <= 2100
            THEN Rng(DT(f.y, 1, 1, 0), DT(f.y, 12, 31, 0))
            ELSE NoRange
      [] OTHER -> NoRange

\* the test of VectorRetriever._filter_by_date on one record date
DateInRange(date, rng) ==
    /\ date # NoDate
    /\ DtLE(rng.s, Midnight(date))
    /\ DtLE(Midnight(date), rng.e)

\* main.normalize_date; ok = FALSE when datetime.replace raises ValueError
NormalizeDate(f, now) ==
    CASE f.k = "yesterday" -> [ok |-> TRUE, f |-> FYmd(DateOf(MinusDays(now, 1)))]
      [] f.k = "today" -> [ok |-> TRUE, f |-> FYmd(DateOf(now))]
      [] f.k = "last_week" -> [ok |-> TRUE, f |-> FYmd(DateOf(MinusDays(now, 7)))]
      [] f.k = "last_month" ->
            LET py == IF now.m = 1 THEN now.y - 1 ELSE now.y
                pm == IF now.m = 1 THEN 12 ELSE now.m - 1
            IN  IF ValidDate(py, pm, now.d)
                THEN [ok |-> TRUE, f |-> Flt("ym", py, pm, 0, 0, TRUE)]
                ELSE [ok |-> FALSE, f |-> FNone]
      [] f.k = "last_year" -> [ok |-> TRUE, f |-> Flt("y", now.y - 1, 0, 0, 0, TRUE)]
      [] OTHER -> [ok |-> TRUE, f |-> f]

\* main._match_date_filter: the record's date string starts with the filter
\* string; the last dekad is matched by year-month prefix and day 21..31
MatchDateFilter(date, f) ==
    /\ date # NoDate
    /\ CASE f.k = "dekad" -> f.d = 3 /\ date.y = f.y /\ date.m = f.m /\ date.d \in 21..31
         [] f.k = "ymd" -> date = Date(f.y, f.m, f.d)
         [] f.k = "ym" ->
               /\ date.y = f.y
               /\ IF f.pad THEN date.m = f.m ELSE (f.m = 1 /\ date.m \in 10..12)
         [] f.k = "y" -> date.y = f.y
         [] OTHER -> FALSE

(***************************************************************************)
(* Records.  An id is "<kind>_<n>" ("voice_..." for ingested records) or,  *)
(* for a sub-chunk, "<kind>_<n>_part_<part>"; part = -1 when not split.    *)
(***************************************************************************)
Id(kind, n) == [kind |-> kind, n |-> n, part |-> -1]

\* f"{parent_id}_part_{index}"
PartId(id, k) == [id EXCEPT !.part = k]

\* the id a sub-chunk id was derived from
ParentId(id) == [id EXCEPT !.part = -1]

Chunk(id, source, date, content) ==
    [id |-> id, source |-> source, date |-> date, content |-> content]

(***************************************************************************)
(* The vector index: faiss.IndexFlatL2.  The index is the sequence of the  *)
(* embedded chunks; dist[i] is the L2 distance of vector i to the query.   *)
(***************************************************************************)
PadDist == 99

\* insert hit h behind every hit that is not farther (list.sort is stable)
RECURSIVE InsertByDistance(_, _)
InsertByDistance(s, h) ==
    IF s = <<>> THEN <<h>>
    ELSE IF Head(s).distance <= h.distance
         THEN <<Head(s)>> \o InsertByDistance(Tail(s), h)
         ELSE <<h>> \o s

RECURSIVE SortByDistance(_)
SortByDistance(s) ==
    IF s = <<>> THEN <<>>
    ELSE InsertByDistance(SortByDistance(SubSeq(s, 1, Len(s) - 1)), s[Len(s)])

\* index.search(query_vector, k): the k nearest positions, ascending
\* distance, padded with label -1 (here 0) and a huge distance
FaissSearch(dist, ntotal, k) ==
    LET all    == [i \in 1..ntotal |-> [pos |-> i, distance |-> dist[i]]]
        sorted == SortByDistance(all)
    IN  [i \in 1..k |-> IF i <= ntotal THEN sorted[i]
                        ELSE [pos |-> 0, distance |-> PadDist]]

\* metadata[idx] with Python's negative indexing for the label -1
MetaAt(meta, idx) == IF idx = 0 THEN meta[Len(meta)] ELSE meta[idx]

Positions(cands) == [i \in 1..Len(cands) |-> cands[i].pos]

\* idx_to_distance: the last entry of a position wins
DistanceOf(cands, idx) ==
    LET is == {i \in 1..Len(cands) : cands[i].pos = idx}
    IN  cands[CHOOSE i \in is : \A j \in is : j <= i].distance

\* the candidate count of VectorRetriever.search
SearchK(f, top_k, ntotal) ==
    IF f.k = "none" THEN top_k
    ELSE IF f.k = "ymd" \/ (f.k = "dekad" /\ f.d # 3) THEN Min2(top_k * 200, ntotal)
    ELSE IF f.k = "dekad" THEN Min2(top_k * 100, ntotal)
    ELSE Min2(top_k * 50, ntotal)

\* VectorRetriever._filter_by_date
RECURSIVE FilterByDate(_, _, _)
FilterByDate(meta, idxs, rng) ==
    IF idxs = <<>> THEN <<>>
    ELSE LET rest == FilterByDate(meta, Tail(idxs), rng)
         IN  IF DateInRange(MetaAt(meta, Head(idxs)).date, rng)
             THEN <<Head(idxs)>> \o rest ELSE rest

VectorHit(chunk, distance) ==
    [id |-> chunk.id, source |-> chunk.source, date |-> chunk.date,
     content |-> chunk.content, distance |-> distance, origin |-> "vector_search"]

\* step 4 of search: build the results, dropping ids already seen
RECURSIVE BuildResults(_, _, _, _)
BuildResults(meta, cands, idxs, acc) ==
    IF idxs = <<>> THEN acc
    ELSE LET chunk == MetaAt(meta, Head(idxs))
         IN  IF chunk.id \in {h.id : h \in Range(acc)}
             THEN BuildResults(meta, cands, Tail(idxs), acc)
             ELSE BuildResults(meta, cands, Tail(idxs),
                               Append(acc, VectorHit(chunk, DistanceOf(cands, Head(idxs)))))

\* the candidates left over when the result is short of top_k
Remaining(cands, result_indices) ==
    SelectSeq(Positions(cands), LAMBDA idx : idx \notin Range(result_indices))

\* VectorRetriever.search with the query embedded; ok = FALSE when it raises
VectorSearch(meta, ntotal, dist, top_k, f, now) ==
    LET cands   == FaissSearch(dist, ntotal, SearchK(f, top_k, ntotal))
        rng     == ParseDateFilter(f, now)
        result_indices ==
            IF f.k # "none" /\ rng.ok
            THEN Take(FilterByDate(meta, Positions(cands), rng), top_k)
            ELSE Take(Positions(cands), top_k)
        results == SortByDistance(BuildResults(meta, cands, result_indices, <<>>))
        extra   == Take(Remaining(cands, result_indices), top_k - Len(results))
        filled  ==
            IF Len(results) < top_k /\ Len(result_indices) < Len(cands)
            THEN SortByDistance(BuildResults(meta, cands, extra, results))
            ELSE results
    IN  [ok |-> TRUE, hits |-> Take(filled, top_k)]

(***************************************************************************)
(* main.call_retriever: keyword pass, vector pass with post-retrieval      *)
(* cleansing, merge, query relaxation, no-record sentinel.                 *)
(***************************************************************************)
KeywordMaxLen == 20
PreciseMaxLen == 15
GenericMaxLen == 6
TruncLen == 500

\* the phrases the relaxation test looks for in the relaxed envelope
NotFoundPhrase == <<"mei", "you", "zhao", "dao">>
NonePhrase == <<"wan", "quan", "mei", "you">>

\* generic_words, and the two of them also searched as substrings
Recent == <<"zui", "jin">>
What == <<"shen", "me">>
GenericWords ==
    {<<"ji", "lu">>, <<"nei", "rong">>, <<"v", "o", "i", "c", "e">>, <<"lu", "yin">>,
     <<"yu", "yin">>, <<"bei", "wang">>, Recent, What, <<"na", "xie">>,
     <<"you", "shen", "me">>}

\* the match test of the keyword pass on one content
KeywordMatch(query, content) ==
    LET query_stripped == Strip(query)
        query_keywords == Split(query_stripped)
        content_lower  == Lower(content)
    IN  IF Len(query_keywords) > 1
        THEN \A i \in 1..Len(query_keywords) :
                 Contains(content_lower, Lower(query_keywords[i]))
        ELSE Contains(content_lower, Lower(query_stripped))

KeywordHit(item) ==
    [id |-> item.id, source |-> item.source, date |-> item.date,
     content |-> item.content, distance |-> 0, origin |-> "keyword_match"]

\* the date test of the keyword pass; nf is the normalized filter
KeywordDateOk(item, nf) == nf.k = "none" \/ MatchDateFilter(item.date, nf)

\* variant: the keyword pass lists its matches last entry first
KeywordPassLastFirst(meta, query, nf) ==
    IF Len(Strip(query)) < KeywordMaxLen
    THEN LET matched == SelectSeq(meta, LAMBDA item :
                            /\ item.content # <<>>
                            /\ KeywordMatch(query, item.content)
                            /\ KeywordDateOk(item, nf))
         IN  [i \in 1..Len(matched) |-> KeywordHit(matched[Len(matched) + 1 - i])]
    ELSE <<>>

\* 1. keyword pass over the metadata list, in list order
KeywordPass(meta, query, nf) ==
    IF Len(Strip(query)) < KeywordMaxLen
    THEN LET matched == SelectSeq(meta, LAMBDA item :
                            /\ item.content # <<>>
                            /\ KeywordMatch(query, item.content)
                            /\ KeywordDateOk(item, nf))
         IN  [i \in 1..Len(matched) |-> KeywordHit(matched[i])]
    ELSE <<>>

IsVoice(r) == r.id.kind = "voice" \/ r.id.kind = "test_manual_001" \/ r.source = "voice"

IsGenericQuery(query_stripped, query_tokens) ==
    \/ \E i \in 1..Len(query_tokens) : Lower(query_tokens[i]) \in GenericWords
    \/ Len(query_stripped) <= GenericMaxLen
    \/ Contains(query_stripped, Recent)
    \/ Contains(query_stripped, What)

\* variant: a user-authored record passes the cleansing of every query
SurvivesVoiceAlways(r, query) ==
    LET query_stripped == Strip(query)
        query_tokens   == Split(query_stripped)
        longest_token  == IF query_tokens # <<>> THEN LongestOf(query_tokens, <<>>)
                          ELSE query_stripped
    IN  \/ Len(query_stripped) >= PreciseMaxLen
        \/ /\ r.content # <<>>
           /\ (IsVoice(r) \/ Contains(Lower(r.content), Lower(longest_token)))

\* post-retrieval cleansing: does vector hit r survive
Survives(r, query) ==
    LET query_stripped == Strip(query)
        query_tokens   == Split(query_stripped)
        longest_token  == IF query_tokens # <<>> THEN LongestOf(query_tokens, <<>>)
                          ELSE query_stripped
        content_lower  == Lower(r.content)
    IN  \/ Len(query_stripped) >= PreciseMaxLen
        \/ /\ r.content # <<>>
           /\ IF IsVoice(r)
              THEN \/ IsGenericQuery(query_stripped, query_tokens)
                   \/ \E i \in 1..Len(query_tokens) :
                          /\ Len(query_tokens[i]) > 1
                          /\ Contains(content_lower, Lower(query_tokens[i]))
              ELSE Contains(content_lower, Lower(longest_token))

\* 3. merge: keyword hits, then vector hits, first occurrence of an id wins
RECURSIVE Dedupe(_, _)
Dedupe(hits, acc) ==
    IF hits = <<>> THEN acc
    ELSE Dedupe(Tail(hits),
                IF Head(hits).id \in {h.id : h \in Range(acc)} THEN acc
                ELSE Append(acc, Head(hits)))

\* variant: vector hits before keyword hits
MergeVectorFirst(keyword_results, vector_results, max_results) ==
    Take(Dedupe(vector_results \o keyword_results, <<>>), max_results)

Merge(keyword_results, vector_results, max_results) ==
    Take(Dedupe(keyword_results \o vector_results, <<>>), max_results)

\* variant: relax whenever a filter was given
NeedRelaxAnyResult(final_results, nf) == nf.k # "none"

\* the guard of the relaxation
NeedRelax(final_results, nf) == final_results = <<>> /\ nf.k # "none"

\* an envelope: the formatted result string, kept as its kind and hits;
\* relax counts the relaxed calls made below this call, merged is the
\* result list of this call's own search
Envelope(kind, hits, merged) ==
    [kind |-> kind, hits |-> hits, relax |-> 0, merged |-> merged]

\* content as shown in the envelope
Truncate(content) == IF Len(content) > TruncLen THEN SubSeq(content, 1, TruncLen) ELSE content

\* phrase occurs in the envelope text
HasPhrase(env, phrase) ==
    CASE env.kind = "none" -> TRUE
      [] env.kind = "found" ->
            \E i \in 1..Len(env.hits) : Contains(Truncate(env.hits[i].content), phrase)
      [] OTHER -> FALSE

\* the relaxed result is taken as the result
RelaxedFound(relaxed) ==
    ~HasPhrase(relaxed, NotFoundPhrase) /\ ~HasPhrase(relaxed, NonePhrase)

\* the query embedding of the call at this depth fails; a query embedded
\* by the dated call is served from the cache in the relaxed call
EmbedFails(io, depth) == \A i \in 1..depth : io.embedFail[i]

LocalVector(r, query, top_k, nf, now, io, depth) ==
    IF EmbedFails(io, depth) THEN <<>>
    ELSE SelectSeq(VectorSearch(r.meta, Len(r.index), io.dist, top_k, nf, now).hits,
                   LAMBDA h : Survives(h, query))

RECURSIVE CallRetriever(_, _, _, _, _, _, _)
CallRetriever(r, query, df, max_results, now, io, depth) ==
    LET norm == NormalizeDate(df, now)
        nf   == norm.f
        own  == IF r.loaded
                THEN Merge(KeywordPass(r.meta, query, nf),
                           LocalVector(r, query, max_results, nf, now, io, depth),
                           max_results)
                ELSE io.http[depth].results
        relaxed == CallRetriever(r, query, FNone, max_results, now, io, depth + 1)
    IN  IF ~norm.ok THEN Envelope("raise", <<>>, <<>>)
        ELSE IF ~r.loaded /\ ~io.http[depth].ok THEN Envelope("error", <<>>, <<>>)
        ELSE IF NeedRelax(own, nf) /\ RelaxedFound(relaxed)
             THEN [relaxed EXCEPT !.relax = relaxed.relax + 1, !.merged = own]
        ELSE IF NeedRelax(own, nf)
             THEN [Envelope("none", <<>>, own) EXCEPT !.relax = relaxed.relax + 1]
        ELSE IF own = <<>> THEN Envelope("none", <<>>, own)
        ELSE Envelope("found", own, own)

(***************************************************************************)
(* The retriever handle and the record of one call_retriever call.         *)
(***************************************************************************)
NoRetriever == [loaded |-> FALSE, index |-> <<>>, meta |-> <<>>]

\* the vectors of a list of chunks: one embedding per content
Vectors(meta) == [i \in 1..Len(meta) |-> meta[i].content]

\* ids settled by a finished run: purged by a completed post-deletion
\* rebuild, fresh from a completed incremental run; a call records the
\* purged ids and, of the fresh chunks, those in the index files of the
\* moment it is made
NoHist == [purged |-> {}, fresh |-> {}]

Retriever(index, meta) == [loaded |-> TRUE, index |-> index, meta |-> meta]

HttpFail == [ok |-> FALSE, results |-> <<>>]

HttpOk(results) == [ok |-> TRUE, results |-> results]

NoIo == [dist |-> <<>>, embedFail |-> <<FALSE, FALSE>>, http |-> <<HttpFail, HttpFail>>]

NoCall ==
    [valid |-> FALSE, query |-> <<>>, df |-> FNone, k |-> 0, now |-> DT(0, 0, 0, 0),
     io |-> NoIo, local |-> FALSE, purged |-> {}, fresh |-> {},
     out |-> Envelope("none", <<>>, <<>>)]

Call(r, query, df, k, now, io, h) ==
    [valid |-> TRUE, query |-> query, df |-> df, k |-> k, now |-> now, io |-> io,
     local |-> r.loaded, purged |-> h.purged, fresh |-> h.fresh,
     out |-> CallRetriever(r, query, df, k, now, io, 1)]

(***************************************************************************)
(* The record of one date-filter parse: the filter as call_retriever       *)
(* received it, the normalized filter, and the ranges that                 *)
(* _parse_date_filter returns for the normalized and for the raw filter.   *)
(***************************************************************************)
ParseCall(f, now) ==
    LET norm == NormalizeDate(f, now)
    IN  [valid |-> TRUE, f |-> f, now |-> now, norm |-> norm,
         rng |-> IF norm.ok THEN ParseDateFilter(norm.f, now) ELSE NoRange,
         raw |-> ParseDateFilter(f, now)]

(***************************************************************************)
(* main.chat_with_agent: one chat request.  A model response is a sequence *)
(* of words and blanks; the three action_patterns are matched on it as     *)
(* re.search does, leftmost match of the first pattern that matches.       *)
(***************************************************************************)
\* re.IGNORECASE: the spellings of the word of the alphabet that has two
ActionWords == {"ACTION:", "action:"}

\* the loop over action_patterns
ActionMatch(ai_response) ==
    LET s == ai_response
        QT == "\""
        \* s[i], and the empty string past the end
        At(i) == IF i \in 1..Len(s) THEN s[i] ELSE ""
        \* \s* from position i: the first position that holds no blank
        RECURSIVE SkipSp(_)
        SkipSp(i) == IF At(i) = SP THEN SkipSp(i + 1) ELSE i
        \* [^...]+ from position i: the first position that holds a stop
        RECURSIVE Until(_, _)
        Until(i, stop) == IF i > Len(s) \/ s[i] \in stop THEN i ELSE Until(i + 1, stop)
        NoMatch == [ok |-> FALSE, query |-> <<>>, date |-> <<>>]
        \* ACTION:\s*SEARCH\s+query="([^"]+)"\s+date="([^"]+)" at position i
        MatchQuoted(i) ==
            LET j  == SkipSp(i + 1)
                k  == SkipSp(j + 1)
                qe == Until(k + 2, {QT})
                d  == SkipSp(qe + 1)
                de == Until(d + 2, {QT})
            IN  IF /\ At(i) \in ActionWords /\ At(j) = "SEARCH"
                   /\ k > j + 1 /\ At(k) = "query=" /\ At(k + 1) = QT
                   /\ qe > k + 2 /\ At(qe) = QT
                   /\ d > qe + 1 /\ At(d) = "date=" /\ At(d + 1) = QT
                   /\ de > d + 2 /\ At(de) = QT
                THEN [ok |-> TRUE, query |-> SubSeq(s, k + 2, qe - 1),
                      date |-> SubSeq(s, d + 2, de - 1)]
                ELSE NoMatch
        \* ACTION:\s*SEARCH\s+query=([^\s]+)\s+date=([^\s]+) at position i
        MatchBare(i) ==
            LET j  == SkipSp(i + 1)
                k  == SkipSp(j + 1)
                qe == Until(k + 1, {SP})
                d  == SkipSp(qe)
                de == Until(d + 1, {SP})
            IN  IF /\ At(i) \in ActionWords /\ At(j) = "SEARCH"
                   /\ k > j + 1 /\ At(k) = "query=" /\ qe > k + 1
                   /\ d > qe /\ At(d) = "date=" /\ de > d + 1
                THEN [ok |-> TRUE, query |-> SubSeq(s, k + 1, qe - 1),
                      date |-> SubSeq(s, d + 1, de - 1)]
                ELSE NoMatch
        \* ACTION:\s*SEARCH\s+query="([^"]+)" at position i; date_param is "None"
        MatchNoDate(i) ==
            LET j  == SkipSp(i + 1)
                k  == SkipSp(j + 1)
                qe == Until(k + 2, {QT})
            IN  IF /\ At(i) \in ActionWords /\ At(j) = "SEARCH"
                   /\ k > j + 1 /\ At(k) = "query=" /\ At(k + 1) = QT
                   /\ qe > k + 2 /\ At(qe) = QT
                THEN [ok |-> TRUE, query |-> SubSeq(s, k + 2, qe - 1), date |-> <<"None">>]
                ELSE NoMatch
        \* re.search(pattern, s): the leftmost match
        Search(M(_)) ==
            LET is == {i \in 1..Len(s) : M(i).ok}
            IN  IF is = {} THEN NoMatch ELSE M(CHOOSE i \in is : \A j \in is : i <= j)
    IN  IF Search(MatchQuoted).ok THEN Search(MatchQuoted)
        ELSE IF Search(MatchBare).ok THEN Search(MatchBare)
        ELSE Search(MatchNoDate)

\* no request: nothing called, nothing answered
NoAgent ==
    [pc |-> "idle", raw |-> <<>>, ai |-> <<>>, modelCalls |-> 0, retrCalls |-> 0,
     answer |-> [kind |-> "none", text |-> <<>>]]

\* variant: the final response is examined for an ACTION line again
FinalStepChained(a, final) ==
    [a EXCEPT !.pc = "decide", !.ai = Strip(final), !.modelCalls = a.modelCalls + 1]

\* 'return final_answer'
FinalStep(a, final) ==
    [a EXCEPT !.pc = "done", !.modelCalls = a.modelCalls + 1,
              !.answer = [kind |-> "final", text |-> Strip(final)]]

(***************************************************************************)
(* Inputs of the retrieval specification.                                  *)
(***************************************************************************)
Rep(c, n) == [i \in 1..n |-> c]

D1125 == Date(2024, 11, 25)
D1105 == Date(2024, 11, 5)
D1007 == Date(2024, 10, 7)

EntryPool ==
    { Chunk(Id("voice", 1), "voice", D1125, <<"a", "b">>),
      Chunk(Id("voice", 1), "voice", NoDate, <<"x">>),
      Chunk(Id("doc", 1), "doc", D1105, <<"A", "b">>),
      Chunk(Id("doc", 1), "doc", D1125, Rep("x", 20)),
      Chunk(Id("doc", 2), "doc", NoDate, <<"b", " ", "a">>),
      Chunk(Id("doc", 2), "doc", D1007, Rep("b", 7) \o NotFoundPhrase) }

QueryPool ==
    { <<"a", "b">>, <<"a", " ", "b">>, Rep("b", 7), Rep("x", 15), Rep("x", 20),
      <<"c">>, Rep("c", 7), Rep("c", 15) }

FilterPool ==
    { FNone, FYmd(D1125), Flt("ym", 2024, 11, 0, 0, TRUE), Flt("ym", 2024, 1, 0, 0, FALSE),
      Flt("y", 2024, 0, 0, 0, TRUE), Flt("dekad", 2024, 11, 3, 0, TRUE),
      Flt("today", 0, 0, 0, 0, TRUE), Flt("last_month", 0, 0, 0, 0, TRUE),
      Flt("days_ago", 0, 0, 0, 2, TRUE), Flt("junk", 0, 0, 0, 0, TRUE) }

NowPool == { DT(2024, 11, 25, 1), DT(2024, 12, 31, 0) }

\* the values of 'now' tried with a filter: one for a filter that does not
\* read the clock
NowsFor(df) ==
    IF df.k \in {"today", "yesterday", "last_week", "last_month", "last_year",
                 "days_ago", "months_ago"}
    THEN NowPool ELSE {DT(2024, 11, 25, 1)}

EmbedFailPool == { <<FALSE, FALSE>>, <<TRUE, FALSE>>, <<TRUE, TRUE>> }

HttpHit(c) ==
    [id |-> c.id, source |-> c.source, date |-> c.date, content |-> c.content,
     distance |-> 1, origin |-> "http"]

HttpPool ==
    { HttpFail, HttpOk(<<>>),
      HttpOk(<<HttpHit(Chunk(Id("voice", 1), "voice", D1125, <<"a", "b">>))>>) }

\* the retriever handles of the retrieval specification: not loaded, or
\* loaded with a non-empty metadata list as long as the index
RetrieverPool ==
    {NoRetriever} \cup
    {Retriever(Vectors(m), m) : m \in SeqsUpTo(EntryPool, MaxMeta) \ {<<>>}}

\* the distances matter when the query is embedded at once; they are all 1
\* when the first embedding fails
IoPool(r) ==
    IF r.loaded
    THEN [dist : [1..Len(r.index) -> 1..MaxDist], embedFail : {<<FALSE, FALSE>>},
          http : {<<HttpFail, HttpFail>>}]
         \cup
         [dist : {[p \in 1..Len(r.index) |-> 1]}, embedFail : EmbedFailPool \ {<<FALSE, FALSE>>},
          http : {<<HttpFail, HttpFail>>}]
    ELSE [dist : {<<>>}, embedFail : {<<FALSE, FALSE>>}, http : HttpPool \X HttpPool]

(***************************************************************************)
(* The ingest -> index pipeline (app.py, indexer.py,                       *)
(* incremental_indexer.py).                                                *)
(***************************************************************************)
MaxRecords == 2

BATCH_SIZE == 20
CHUNK_SIZE == 600
CHUNK_OVERLAP == 100

ConvPool == {"conv_1"}

\* the requests of POST /api/voice: a record of the conversation, and a
\* record outside every conversation
IngestPool ==
    { [content |-> <<"a", "b">>, conv |-> "conv_1"],
      [content |-> <<"x">>, conv |-> "no_conv"] }

ServiceQueries == {<<"a", "b">>}

\* app.generate_id: "voice_YYYYMMDD_HHMM", one id per minute
generate_id(now) == Id("voice", now)

\* the date create_record stamps; every minute of the model is on one day
DateAt(now) == D1125

\* app.create_record
create_record(content, conversation_id, now) ==
    [id |-> generate_id(now), source |-> "voice", date |-> DateAt(now),
     content |-> content, conv |-> conversation_id]

\* the chunk sync_to_rag_system derives from a record
rag_chunk(voice_record) ==
    Chunk(voice_record.id, voice_record.source, voice_record.date, voice_record.content)

Ids(s) == {s[i].id : i \in 1..Len(s)}

\* app.update_index_status / get_index_status
Status(st, progress) == [st |-> st, progress |-> progress]

(***************************************************************************)
(* Jobs: the jobs of the scheduler's thread pool and of the background     *)
(* tasks, at most MaxJobs.  jid is the scheduler's job id.  idx, meta, ids *)
(* hold what the child process has computed and is about to write; gdel    *)
(* and ging remember the deletion / ingest that submitted the job.         *)
(***************************************************************************)
NoJob ==
    [kind |-> "none", jid |-> <<"none", 0>>, pc |-> "none", idx |-> <<>>,
     meta |-> <<>>, ids |-> {}, gdel |-> {}, ging |-> {}]

NewJob(kind, jid, gdel, ging) ==
    [NoJob EXCEPT !.kind = kind, !.jid = jid, !.pc = "pending", !.gdel = gdel, !.ging = ging]

Running(j) == j.pc # "pending"

\* scheduler.add_job(..., id=jid, replace_existing=True): a pending job of
\* the same id is replaced
AddJob(job) == {x \in jobs : ~(x.pc = "pending" /\ x.jid = job.jid)} \cup {job}

\* the job j continues as job j2
Put(j, j2) == (jobs \ {j}) \cup {j2}

\* BackgroundTasks.add_task: always a new task; tasks are told apart by a
\* number
ManualJid == <<"manual", CHOOSE k \in 1..(MaxJobs + 1) :
                             /\ \A x \in jobs : x.jid # <<"manual", k>>
                             /\ \A m \in 1..(k - 1) : \E x \in jobs : x.jid = <<"manual", m>>>>

(***************************************************************************)
(* HTTP handlers.                                                          *)
(***************************************************************************)
\* POST /api/voice: add_voice_record with sync_to_rag_system
add_voice_record(content, conversation_id) ==
    LET record == create_record(content, conversation_id, clock)
        chunk  == rag_chunk(record)
        job    == NewJob("incr", <<"incr", record.id.n>>, {}, {chunk.id})
    IN  /\ Len(records) < MaxRecords
        /\ records' = Append(records, record)
        /\ IF chunk.id \in Ids(chunks)
           THEN UNCHANGED <<chunks, flag, jobs>>
           ELSE /\ Cardinality(AddJob(job)) <= MaxJobs
                /\ chunks' = Append(chunks, chunk)
                /\ flag' = TRUE
                /\ jobs' = AddJob(job)
        /\ hist' = IF chunk.id \in Ids(chunks) THEN hist
                   ELSE [hist EXCEPT !.purged = @ \ {chunk.id}]
        /\ UNCHANGED <<clock, convs, diskIndex, diskMeta, hasIndex, hasMeta,
                       indexedIds, status, retr, rres, unitVars>>

\* DELETE /api/conversations/{conv_id}
delete_conversation(conv_id) ==
    LET deleted_record_ids == {records[i].id : i \in {j \in 1..Len(records) :
                                                      records[j].conv = conv_id}}
        job  == NewJob("full", <<"del", 0>>, deleted_record_ids, {})
        keep(s) == SelectSeq(s, LAMBDA m : m.id \notin deleted_record_ids)
    IN  /\ conv_id \in convs
        /\ convs' = convs \ {conv_id}
        /\ records' = SelectSeq(records, LAMBDA r : r.conv # conv_id)
        /\ IF deleted_record_ids # {}
           THEN /\ Cardinality(AddJob(job)) <= MaxJobs
                /\ diskMeta' = IF hasMeta THEN keep(diskMeta) ELSE diskMeta
                /\ chunks' = keep(chunks)
                /\ flag' = TRUE
                /\ jobs' = AddJob(job)
           ELSE UNCHANGED <<diskMeta, chunks, flag, jobs>>
        /\ UNCHANGED <<clock, diskIndex, hasIndex, hasMeta, indexedIds, status,
                       retr, rres, hist, unitVars>>

\* POST /api/rebuild-index
rebuild_index_api ==
    /\ status.st # "running"
    /\ Cardinality(jobs) < MaxJobs
    /\ flag' = TRUE
    /\ status' = Status("running", 0)
    /\ jobs' = jobs \cup {NewJob("full", ManualJid, {}, {})}
    /\ UNCHANGED <<clock, records, convs, chunks, diskIndex, diskMeta, hasIndex,
                   hasMeta, indexedIds, retr, rres, hist, unitVars>>

\* the 30-minute interval job 'rebuild_index_job' comes due; runs that are
\* due and not yet started are coalesced into one
rebuild_index_job ==
    /\ \A x \in jobs : ~(x.jid = <<"tick", 0>> /\ x.pc = "pending")
    /\ Cardinality(jobs) < MaxJobs
    /\ jobs' = jobs \cup {NewJob("full", <<"tick", 0>>, {}, {})}
    /\ UNCHANGED <<clock, records, convs, chunks, diskIndex, diskMeta, hasIndex,
                   hasMeta, indexedIds, flag, status, retr, rres, hist, unitVars>>

\* a minute passes
Minute ==
    /\ clock < MaxClock
    /\ clock' = clock + 1
    /\ UNCHANGED <<records, convs, chunks, diskIndex, diskMeta, hasIndex, hasMeta,
                   indexedIds, flag, status, jobs, retr, rres, hist, unitVars>>

(***************************************************************************)
(* The scheduler starts a pending job.                                     *)
(***************************************************************************)
\* another instance of the same scheduler job is still running
InstanceRunning(j) ==
    \E x \in jobs : x # j /\ Running(x) /\ x.jid = j.jid

\* max_instances = 1: the run is skipped and the one-shot job is dropped
JobSkipped(j) ==
    /\ j.pc = "pending"
    /\ InstanceRunning(j)
    /\ jobs' = jobs \ {j}
    /\ UNCHANGED <<clock, records, convs, chunks, diskIndex, diskMeta, hasIndex,
                   hasMeta, indexedIds, flag, status, retr, rres, hist, unitVars>>

\* check_and_rebuild_index up to the launch of the child indexer
FullStart(j) ==
    /\ j.kind = "full" /\ j.pc = "pending"
    /\ ~InstanceRunning(j)
    /\ IF flag
       THEN /\ status' = Status("running", 0)
            /\ jobs' = Put(j, [j EXCEPT !.pc = "child_load"])
       ELSE /\ jobs' = jobs \ {j}
            /\ UNCHANGED status
    /\ UNCHANGED <<clock, records, convs, chunks, diskIndex, diskMeta, hasIndex,
                   hasMeta, indexedIds, flag, retr, rres, hist, unitVars>>

\* incremental_rebuild_index up to the launch of the child indexer
IncrStart(j) ==
    /\ j.kind = "incr" /\ j.pc = "pending"
    /\ ~InstanceRunning(j)
    /\ jobs' = IF flag THEN Put(j, [j EXCEPT !.pc = "child_load"]) ELSE jobs \ {j}
    /\ UNCHANGED <<clock, records, convs, chunks, diskIndex, diskMeta, hasIndex,
                   hasMeta, indexedIds, flag, status, retr, rres, hist, unitVars>>

(***************************************************************************)
(* The full indexer (indexer.py), run as a child process.                  *)
(***************************************************************************)
\* RecursiveCharacterTextSplitter.split_text: windows of chunk_size
\* characters that overlap by chunk_overlap
RECURSIVE Windows(_)
Windows(text) ==
    IF Len(text) <= CHUNK_SIZE THEN <<text>>
    ELSE <<SubSeq(text, 1, CHUNK_SIZE)>>
         \o Windows(SubSeq(text, CHUNK_SIZE - CHUNK_OVERLAP + 1, Len(text)))

\* indexer.split_chunk_with_text_splitter
split_chunk_with_text_splitter(chunk) ==
    LET sub_chunks == Windows(chunk.content)
    IN  IF Strip(chunk.content) = <<>> THEN <<>>
        ELSE IF Len(sub_chunks) <= 1 THEN <<chunk>>
        ELSE LET kept == SelectSeq([k \in 1..Len(sub_chunks) |-> k],
                                   LAMBDA k : Strip(sub_chunks[k]) # <<>>)
             IN  [i \in 1..Len(kept) |->
                     [chunk EXCEPT !.id = PartId(chunk.id, kept[i] - 1),
                                   !.content = Strip(sub_chunks[kept[i]])]]

\* indexer.load_and_split_chunks
RECURSIVE SplitAll(_)
SplitAll(cs) ==
    IF cs = <<>> THEN <<>>
    ELSE split_chunk_with_text_splitter(Head(cs)) \o SplitAll(Tail(cs))

load_and_split_chunks(all_chunks) ==
    SplitAll(SelectSeq(all_chunks, LAMBDA c : Strip(c.content) # <<>>))

\* the batch (1-based) of the chunk at position p
BatchOf(p) == ((p - 1) \div BATCH_SIZE) + 1

TotalBatches(n) == (n + BATCH_SIZE - 1) \div BATCH_SIZE

\* indexer.process_batches: a failed batch is skipped
process_batches(cs, failed) ==
    LET pos == SelectSeq([p \in 1..Len(cs) |-> p], LAMBDA p : BatchOf(p) \notin failed)
    IN  [i \in 1..Len(pos) |-> cs[pos[i]]]

\* indexer.main up to build_faiss_index
FullChildLoad(j) ==
    /\ j.kind = "full" /\ j.pc = "child_load"
    /\ LET cs == load_and_split_chunks(chunks)
       IN  IF cs = <<>>
           THEN /\ jobs' = Put(j, [j EXCEPT !.pc = "exit1"])
                /\ UNCHANGED status
           ELSE \E failed \in SUBSET (1..TotalBatches(Len(cs))) :
                  LET metadata == process_batches(cs, failed)
                  IN  /\ jobs' = Put(j,
                                    IF metadata = <<>> THEN [j EXCEPT !.pc = "exit1"]
                                    ELSE [j EXCEPT !.pc = "write_index",
                                                   !.idx = Vectors(metadata),
                                                   !.meta = metadata])
                      /\ status' = Status("running", 80)
    /\ UNCHANGED <<clock, records, convs, chunks, diskIndex, diskMeta, hasIndex,
                   hasMeta, indexedIds, flag, retr, rres, hist, unitVars>>

\* indexer.save_index_and_metadata: faiss.write_index
FullChildWriteIndex(j) ==
    /\ j.kind = "full" /\ j.pc = "write_index"
    /\ diskIndex' = j.idx
    /\ hasIndex' = TRUE
    /\ jobs' = Put(j, [j EXCEPT !.pc = "write_meta"])
    /\ UNCHANGED <<clock, records, convs, chunks, diskMeta, hasMeta, indexedIds,
                   flag, status, retr, rres, hist, unitVars>>

\* indexer.save_index_and_metadata: json.dump of the metadata
FullChildWriteMeta(j) ==
    /\ j.kind = "full" /\ j.pc = "write_meta"
    /\ diskMeta' = j.meta
    /\ hasMeta' = TRUE
    /\ jobs' = Put(j, [j EXCEPT !.pc = "exit0"])
    /\ UNCHANGED <<clock, records, convs, chunks, diskIndex, hasIndex, indexedIds,
                   flag, status, retr, rres, hist, unitVars>>

\* the child dies (an exception, a kill): exit code 1
FullChildCrash(j) ==
    /\ j.kind = "full" /\ j.pc \in {"child_load", "write_index", "write_meta"}
    /\ jobs' = Put(j, [j EXCEPT !.pc = "exit1"])
    /\ UNCHANGED <<clock, records, convs, chunks, diskIndex, diskMeta, hasIndex,
                   hasMeta, indexedIds, flag, status, retr, rres, hist, unitVars>>

\* the child never exits: process.wait() has no timeout
FullChildHang(j) ==
    /\ j.kind = "full" /\ j.pc = "child_load"
    /\ jobs' = Put(j, [j EXCEPT !.pc = "hung"])
    /\ UNCHANGED <<clock, records, convs, chunks, diskIndex, diskMeta, hasIndex,
                   hasMeta, indexedIds, flag, status, retr, rres, hist, unitVars>>

\* check_and_rebuild_index after process.wait(), return code 0
FullDone(j) ==
    /\ j.kind = "full" /\ j.pc = "exit0"
    /\ flag' = FALSE
    /\ status' = Status("completed", 100)
    /\ hist' = [hist EXCEPT !.purged = @ \cup (j.gdel \ Ids(chunks))]
    /\ jobs' = jobs \ {j}
    /\ UNCHANGED <<clock, records, convs, chunks, diskIndex, diskMeta, hasIndex,
                   hasMeta, indexedIds, retr, rres, unitVars>>

\* the failure branch with the flag cleared and the status completed
FullFailedClears(j) ==
    /\ j.kind = "full" /\ j.pc = "exit1"
    /\ flag' = FALSE
    /\ status' = Status("completed", 100)
    /\ jobs' = jobs \ {j}
    /\ UNCHANGED <<clock, records, convs, chunks, diskIndex, diskMeta, hasIndex,
                   hasMeta, indexedIds, retr, rres, hist, unitVars>>

\* check_and_rebuild_index after process.wait(), return code not 0
FullFailed(j) ==
    /\ j.kind = "full" /\ j.pc = "exit1"
    /\ status' = Status("failed", 0)
    /\ jobs' = jobs \ {j}
    /\ UNCHANGED <<clock, records, convs, chunks, diskIndex, diskMeta, hasIndex,
                   hasMeta, indexedIds, flag, retr, rres, hist, unitVars>>

(***************************************************************************)
(* The incremental indexer (incremental_indexer.py), run as a child        *)
(* process under subprocess.run(timeout=300).                              *)
(***************************************************************************)
\* another process is writing the index or the metadata file
WriterActive(j) ==
    \E x \in jobs : x # j /\ x.pc \in {"write_index", "write_meta"}

\* incremental_index, steps 1 to 5: load, find the new chunks, embed them
IncrChildLoad(j) ==
    /\ j.kind = "incr" /\ j.pc = "child_load"
    /\ LET new_chunks == SelectSeq(chunks, LAMBDA c : c.id \notin indexedIds)
           embeddable == SelectSeq([p \in 1..Len(new_chunks) |-> p],
                                   LAMBDA p : new_chunks[p].content # <<>>)
       IN  IF new_chunks = <<>>
           THEN jobs' = Put(j, [j EXCEPT !.pc = "exit0"])
           ELSE \E loadOk \in (IF WriterActive(j) THEN BOOLEAN ELSE {TRUE}),
                   embedded \in SUBSET Range(embeddable) :
                  LET loaded   == hasIndex /\ hasMeta /\ loadOk
                      index    == IF loaded THEN diskIndex ELSE <<>>
                      metadata == IF loaded THEN diskMeta ELSE <<>>
                      new_pos  == SelectSeq(embeddable, LAMBDA p : p \in embedded)
                      new_metadata == [k \in 1..Len(new_pos) |-> new_chunks[new_pos[k]]]
                  IN  jobs' = Put(j,
                                 IF new_metadata = <<>> THEN [j EXCEPT !.pc = "exit1"]
                                 ELSE [j EXCEPT !.pc = "write_index",
                                                !.idx = index \o Vectors(new_metadata),
                                                !.meta = metadata \o new_metadata,
                                                !.ids = indexedIds \cup Ids(new_metadata)])
    /\ UNCHANGED <<clock, records, convs, chunks, diskIndex, diskMeta, hasIndex,
                   hasMeta, indexedIds, flag, status, retr, rres, hist, unitVars>>

\* incremental_index, step 6: faiss.write_index
IncrChildWriteIndex(j) ==
    /\ j.kind = "incr" /\ j.pc = "write_index"
    /\ diskIndex' = j.idx
    /\ hasIndex' = TRUE
    /\ jobs' = Put(j, [j EXCEPT !.pc = "write_meta"])
    /\ UNCHANGED <<clock, records, convs, chunks, diskMeta, hasMeta, indexedIds,
                   flag, status, retr, rres, hist, unitVars>>

\* incremental_index, step 6: json.dump of the metadata
IncrChildWriteMeta(j) ==
    /\ j.kind = "incr" /\ j.pc = "write_meta"
    /\ diskMeta' = j.meta
    /\ hasMeta' = TRUE
    /\ jobs' = Put(j, [j EXCEPT !.pc = "write_ids"])
    /\ UNCHANGED <<clock, records, convs, chunks, diskIndex, hasIndex, indexedIds,
                   flag, status, retr, rres, hist, unitVars>>

\* incremental_indexer.save_indexed_ids
IncrChildWriteIds(j) ==
    /\ j.kind = "incr" /\ j.pc = "write_ids"
    /\ indexedIds' = j.ids
    /\ jobs' = Put(j, [j EXCEPT !.pc = "exit0"])
    /\ UNCHANGED <<clock, records, convs, chunks, diskIndex, diskMeta, hasIndex,
                   hasMeta, flag, status, retr, rres, hist, unitVars>>

\* incremental_rebuild_index after the child returned 0
IncrDone(j) ==
    /\ j.kind = "incr" /\ j.pc = "exit0"
    /\ flag' = FALSE
    /\ hist' = [hist EXCEPT !.fresh = @ \cup j.ging]
    /\ jobs' = jobs \ {j}
    /\ UNCHANGED <<clock, records, convs, chunks, diskIndex, diskMeta, hasIndex,
                   hasMeta, indexedIds, status, retr, rres, unitVars>>

\* incremental_rebuild_index: CalledProcessError, or TimeoutExpired with
\* the child killed wherever it is
IncrFailed(j) ==
    /\ j.kind = "incr"
    /\ j.pc \in {"exit1", "child_load", "write_index", "write_meta", "write_ids"}
    /\ jobs' = jobs \ {j}
    /\ UNCHANGED <<clock, records, convs, chunks, diskIndex, diskMeta, hasIndex,
                   hasMeta, indexedIds, flag, status, retr, rres, hist, unitVars>>

(***************************************************************************)
(* A chat request that searches: main._get_local_retriever and             *)
(* main.call_retriever.                                                    *)
(***************************************************************************)
\* _get_local_retriever: the handle is loaded once and kept; loading
\* fails when a file is missing or the two sizes differ
GetLocalRetriever ==
    IF retr.loaded THEN retr
    ELSE IF hasIndex /\ hasMeta /\ Len(diskIndex) = Len(diskMeta)
         THEN Retriever(diskIndex, diskMeta)
         ELSE NoRetriever

\* the embedding and HTTP outcomes of a search of the running service
ServiceIo(r) ==
    IF r.loaded
    THEN [dist : {[p \in 1..Len(r.index) |-> 1]}, embedFail : {<<FALSE, FALSE>>},
          http : {<<HttpFail, HttpFail>>}]
    ELSE [dist : {<<>>}, embedFail : {<<FALSE, FALSE>>},
          http : {<<HttpFail, HttpFail>>, <<HttpOk(<<>>), HttpOk(<<>>)>>}]

ServiceNow == DT(2024, 11, 25, 1)

ChatSearch(query) ==
    LET r == GetLocalRetriever
    IN  /\ retr' = r
        /\ \E io \in ServiceIo(r) :
               rres' = Call(r, query, FNone, MaxK, ServiceNow, io,
                            [purged |-> hist.purged,
                             fresh  |-> {c \in Range(chunks) :
                                            /\ c.id \in hist.fresh
                                            /\ hasIndex /\ hasMeta
                                            /\ Len(diskIndex) = Len(diskMeta)
                                            /\ c \in Range(diskMeta)}])
        /\ UNCHANGED pipeVars

(***************************************************************************)
(* process_voice.py: the command-line ingest, a process of its own.  It    *)
(* reads the record file, appends its record and writes the file back.     *)
(***************************************************************************)
\* create_record and load_records of the script
ScriptLoad ==
    /\ script.pc = "idle"
    /\ \E content \in {<<"s">>} :
          script' = [pc |-> "loaded", record |-> create_record(content, "no_conv", clock),
                     records |-> records]
    /\ UNCHANGED <<clock, records, convs, chunks, diskIndex, diskMeta, hasIndex,
                   hasMeta, indexedIds, flag, status, jobs, retr, rres, hist, dres, agent,
                   reader, cache>>

\* records.append and save_records of the script
ScriptSave ==
    /\ script.pc = "loaded"
    /\ records' = Append(script.records, script.record)
    /\ script' = [script EXCEPT !.pc = "done"]
    /\ UNCHANGED <<clock, convs, chunks, diskIndex, diskMeta, hasIndex,
                   hasMeta, indexedIds, flag, status, jobs, retr, rres, hist, dres, agent,
                   reader, cache>>

(***************************************************************************)
(* The output reader of a full rebuild: check_and_rebuild_index starts the *)
(* child indexer and a thread that reads the child's output line by line   *)
(* and writes the progress to the status record.                           *)
(***************************************************************************)
MaxOriginal == 200
MaxExtra == 2

\* the lines of indexer.py that read_output parses, in the order the child
\* prints them: load_and_split_chunks prints the percentage of the first
\* and of every 100th record, process_batches a line per batch between its
\* opening and closing lines
IndexerLines(total_original, total_batches) ==
    LET shown == SelectSeq([n \in 1..total_original |-> n],
                           LAMBDA n : n % 100 = 0 \/ n = 1)
    IN  [k \in 1..Len(shown) |->
            [kind |-> "progress", a |-> (shown[k] * 100) \div total_original, b |-> 0]]
        \o <<[kind |-> "start", a |-> 0, b |-> 0]>>
        \o [k \in 1..total_batches |-> [kind |-> "batch", a |-> k, b |-> total_batches]]
        \o <<[kind |-> "done", a |-> 0, b |-> 0]>>

\* check_and_rebuild_index up to output_thread.start(): the child has
\* total_original records to split into total_original + extra sub-chunks
ReaderStart ==
    /\ reader.pc = "idle"
    /\ \E total_original \in 1..MaxOriginal, extra \in 0..MaxExtra :
          reader' = [pc |-> "reading",
                     lines |-> IndexerLines(total_original,
                                            TotalBatches(total_original + extra)),
                     last_progress |-> 0]
    /\ status' = Status("running", 0)
    /\ UNCHANGED <<clock, records, convs, chunks, diskIndex, diskMeta, hasIndex,
                   hasMeta, indexedIds, flag, jobs, retr, rres, hist, dres, agent,
                   script, cache>>

\* read_output: one line of the child
ReadOutput ==
    /\ reader.pc = "reading" /\ reader.lines # <<>>
    /\ LET line == Head(reader.lines)
           progress == IF line.kind = "progress" THEN Min2(line.a, 95)
                       ELSE Min2((line.a * 90) \div line.b, 90)
       IN  IF line.kind \in {"progress", "batch"}
           THEN IF progress > reader.last_progress
                THEN /\ reader' = [reader EXCEPT !.lines = Tail(@),
                                                 !.last_progress = progress]
                     /\ status' = Status("running", progress)
                ELSE /\ reader' = [reader EXCEPT !.lines = Tail(@)]
                     /\ UNCHANGED status
           ELSE /\ reader' = [reader EXCEPT !.lines = Tail(@)]
                /\ status' = Status("running", IF line.kind = "start" THEN 20 ELSE 80)
    /\ UNCHANGED <<clock, records, convs, chunks, diskIndex, diskMeta, hasIndex,
                   hasMeta, indexedIds, flag, jobs, retr, rres, hist, dres, agent,
                   script, cache>>

\* the child has exited and its output is read: return code 0 after the
\* last line, or a return code other than 0 at any line
ReaderExit ==
    /\ reader.pc = "reading"
    /\ \E returncode \in (IF reader.lines = <<>> THEN {0, 1} ELSE {1}) :
          status' = IF returncode = 0 THEN Status("completed", 100)
                    ELSE Status("failed", 0)
    /\ reader' = [pc |-> "idle", lines |-> <<>>, last_progress |-> 0]
    /\ UNCHANGED <<clock, records, convs, chunks, diskIndex, diskMeta, hasIndex,
                   hasMeta, indexedIds, flag, jobs, retr, rres, hist, dres, agent,
                   script, cache>>

(***************************************************************************)
(* The embedding cache: EmbeddingClient.get_embedding (retriever.py).  The *)
(* cache is a dict, which iterates in insertion order; order is that       *)
(* order.  uses lists the cached texts by their last use, oldest first.    *)
(***************************************************************************)
CacheSize == 2
MaxCalls == 5

\* get_embedding(text); ok: the embedding API answers
get_embedding(text, ok) ==
    /\ cache.hits + cache.misses < MaxCalls
    /\ IF text \in Range(cache.order)
       THEN cache' = [cache EXCEPT !.hits = @ + 1,
                                   !.uses = Append(SelectSeq(@, LAMBDA t : t # text), text)]
       ELSE IF ~ok
       THEN cache' = [cache EXCEPT !.misses = @ + 1]
       ELSE LET kept == IF Len(cache.order) >= CacheSize THEN Tail(cache.order)
                        ELSE cache.order
            IN  cache' = [cache EXCEPT
                             !.misses = @ + 1,
                             !.order = Append(kept, text),
                             !.uses = Append(SelectSeq(@, LAMBDA t : t \in Range(kept)), text)]
    /\ UNCHANGED <<clock, records, convs, chunks, diskIndex, diskMeta, hasIndex,
                   hasMeta, indexedIds, flag, status, jobs, retr, rres, hist, dres,
                   agent, script, reader>>

(***************************************************************************)
(* The service: no file exists, the status record reads idle.              *)
(***************************************************************************)
PipeInit ==
    /\ clock = 0
    /\ records = <<>>
    /\ convs = {"conv_1"}
    /\ chunks = <<>>
    /\ diskIndex = <<>>
    /\ diskMeta = <<>>
    /\ hasIndex = FALSE
    /\ hasMeta = FALSE
    /\ indexedIds = {}
    /\ flag = FALSE
    /\ status = Status("idle", 0)
    /\ jobs = {}
    /\ hist = NoHist
    /\ dres = [valid |-> FALSE, f |-> FNone, now |-> DT(0, 0, 0, 0),
               norm |-> [ok |-> TRUE, f |-> FNone], rng |-> NoRange, raw |-> NoRange]
    /\ agent = NoAgent
    /\ script = [pc |-> "idle", record |-> create_record(<<>>, "no_conv", 0),
                 records |-> <<>>]
    /\ reader = [pc |-> "idle", lines |-> <<>>, last_progress |-> 0]
    /\ cache = [order |-> <<>>, uses |-> <<>>, hits |-> 0, misses |-> 0]

Init ==
    /\ PipeInit
    /\ retr = NoRetriever
    /\ rres = NoCall

\* the steps of the scheduler, of the supervisors and of their children
JobNext ==
    \/ \E j \in jobs : FullStart(j)
    \/ \E j \in jobs : IncrStart(j)
    \/ \E j \in jobs : FullChildLoad(j)
    \/ \E j \in jobs : FullChildWriteIndex(j)
    \/ \E j \in jobs : FullChildWriteMeta(j)
    \/ \E j \in jobs : FullDone(j)
    \/ \E j \in jobs : FullFailed(j)
    \/ \E j \in jobs : IncrChildLoad(j)
    \/ \E j \in jobs : IncrChildWriteIndex(j)
    \/ \E j \in jobs : IncrChildWriteMeta(j)
    \/ \E j \in jobs : IncrChildWriteIds(j)
    \/ \E j \in jobs : IncrDone(j)
    \/ \E j \in jobs : IncrFailed(j)

\* ingest and the rebuild supervisor: the incremental job of an ingest, the
\* interval job and the manual rebuild, with children that crash or hang
SupNext ==
    \/ \E rq \in IngestPool : add_voice_record(rq.content, rq.conv)
    \/ rebuild_index_api
    \/ rebuild_index_job
    \/ JobNext
    \/ \E j \in jobs : JobSkipped(j)
    \/ \E j \in jobs : FullChildCrash(j)
    \/ \E j \in jobs : FullChildHang(j)

SpecSup == Init /\ [][SupNext]_vars

\* no rebuild job is pending or running
Quiet == jobs = {}

\* ingest, deletion and the rebuilds they submit, with the search path; a
\* request arrives after the job of the request before it has ended
ServeNext ==
    \/ \E rq \in IngestPool : Quiet /\ add_voice_record(rq.content, rq.conv)
    \/ \E conv \in ConvPool : Quiet /\ delete_conversation(conv)
    \/ Minute
    \/ JobNext
    \/ \E query \in ServiceQueries : ChatSearch(query)

SpecServe == Init /\ [][ServeNext]_vars

\* the service's record handlers next to a run of the script
WriterNext ==
    \/ \E rq \in IngestPool : add_voice_record(rq.content, rq.conv)
    \/ \E conv \in ConvPool : delete_conversation(conv)
    \/ Minute
    \/ ScriptLoad
    \/ ScriptSave

SpecWriters == Init /\ [][WriterNext]_vars

\* the index files under ingest, deletion and manual rebuilds: the records
\* of the conversation are longer than one window, and children crash; an
\* ingest or a deletion arrives after the job of the request before it has
\* ended, a manual rebuild at any time
IndexNext ==
    \/ \E rq \in { [content |-> Rep("x", CHUNK_SIZE + 1), conv |-> "conv_1"] } :
           Quiet /\ add_voice_record(rq.content, rq.conv)
    \/ \E conv \in ConvPool : Quiet /\ delete_conversation(conv)
    \/ rebuild_index_api
    \/ Minute
    \/ JobNext
    \/ \E j \in jobs : FullChildCrash(j)

SpecIndex == Init /\ [][IndexNext]_vars

\* one full rebuild after another, seen from the output reader
ProgressNext == ReaderStart \/ ReadOutput \/ ReaderExit

SpecProgress == Init /\ [][ProgressNext]_vars

\* calls of get_embedding on one client
CacheNext ==
    \E text \in {<<"a">>, <<"b">>, <<"c">>}, ok \in BOOLEAN : get_embedding(text, ok)

SpecCache == Init /\ [][CacheNext]_vars

\* the whole service
Next == SupNext \/ ServeNext \/ IndexNext

Spec == Init /\ [][Next]_vars

(***************************************************************************)
(* The retrieval specification: call_retriever applied to every retriever  *)
(* handle and every input of the pools.                                    *)
(***************************************************************************)
RetrInit ==
    /\ PipeInit
    /\ retr \in RetrieverPool
    /\ rres = NoCall

Retrieve ==
    /\ ~rres.valid
    /\ \E query \in QueryPool, df \in FilterPool, k \in 1..MaxK, io \in IoPool(retr) :
          \E now \in NowsFor(df) :
             rres' = Call(retr, query, df, k, now, io, hist)
    /\ UNCHANGED retr
    /\ UNCHANGED pipeVars

RetrNext == Retrieve

SpecRetr == RetrInit /\ [][RetrNext]_vars

(***************************************************************************)
(* The date specification: normalize_date and _parse_date_filter applied   *)
(* to every filter and every 'now' of the pools.                           *)
(***************************************************************************)
MaxAgo == 3

\* the number of days after the first 'now' of the pool
NowDays == 13

\* one parse, of a filter of every form at a 'now' of the pool: the days
\* from Monday 2024-02-26 on at two times of day, and three month ends
ParseFilter ==
    LET DateFilterPool ==
            {Flt("days_ago", 0, 0, 0, n, TRUE) : n \in 0..MaxAgo} \cup
            {Flt("months_ago", 0, 0, 0, n, TRUE) : n \in 0..MaxAgo} \cup
            {Flt(k, 0, 0, 0, 0, TRUE) : k \in {"today", "yesterday", "last_week",
                                               "last_month", "last_year", "junk"}} \cup
            {Flt("dekad", 2024, 2, d, 0, TRUE) : d \in 1..3} \cup
            { FYmd(Date(2024, 2, 29)), FYmd(Date(2023, 2, 29)),
              Flt("ym", 2024, 2, 0, 0, TRUE), Flt("ym", 2024, 1, 0, 0, FALSE),
              Flt("ym", 2024, 13, 0, 0, TRUE), Flt("y", 2024, 0, 0, 0, TRUE),
              Flt("y", 1800, 0, 0, 0, TRUE) }
        DateNowPool ==
            {MinusDays(DT(2024, 2, 26, tod), -k) : k \in 0..NowDays, tod \in 0..1}
            \cup {DT(2024, 12, 31, 1), DT(2025, 1, 1, 0), DT(2024, 3, 31, 1)}
    IN  /\ ~dres.valid
        /\ \E f \in DateFilterPool, now \in DateNowPool : dres' = ParseCall(f, now)
        /\ UNCHANGED <<clock, records, convs, chunks, diskIndex, diskMeta, hasIndex,
                       hasMeta, indexedIds, flag, status, jobs, retr, rres, hist, agent,
                       script, reader, cache>>

DateNext == ParseFilter

SpecDate == Init /\ [][DateNext]_vars

(***************************************************************************)
(* The agent specification: one chat request of a service that holds no    *)
(* index file, with every response of the pools.                           *)
(***************************************************************************)
MaxResults == 10

\* entry of chat_with_agent: without the token no call is made
AgentChat ==
    /\ agent.pc = "idle"
    /\ \E key \in BOOLEAN :
          agent' = IF key THEN [agent EXCEPT !.pc = "first"]
                   ELSE [agent EXCEPT !.pc = "done",
                                      !.answer = [kind |-> "no_token", text |-> <<>>]]
    /\ UNCHANGED <<clock, records, convs, chunks, diskIndex, diskMeta, hasIndex,
                   hasMeta, indexedIds, flag, status, jobs, retr, rres, hist, dres, script, reader, cache>>

\* first round: the model answers or the call raises.  The responses are a
\* text before, a body and a text after; a body is a text, a lone ACTION
\* word, or an ACTION line of the word, the gap, the query and the date
FirstModelCall ==
    LET QT == "\""
        ActionLine(word, gap, qpart, dpart) ==
            <<word>> \o gap \o <<"SEARCH", SP>> \o qpart \o dpart
        QueryParts ==
            { <<"query=", QT, "a", QT>>, <<"query=", "a">>, <<"query=", QT, QT>>,
              <<"query=", QT, "a", SP, "b", QT>> }
        DateParts ==
            {<<>>} \cup
            {<<SP, "date=", QT, d, QT>> : d \in {"None", "2024-11-25", "last_month"}} \cup
            {<<SP, "date=", d>> : d \in {"None", "2024-11-25", "last_month"}}
        bodies ==
            {<<"txt">>, <<"ACTION:">>, <<"ACTION:", SP, "SEARCH">>} \cup
            {ActionLine(w, g, q, d) : w \in ActionWords, g \in {<<>>, <<SP>>},
                                      q \in QueryParts, d \in DateParts}
        ResponsePool ==
            {pre \o body \o post : pre \in {<<>>, <<SP>>, <<"txt", SP>>}, body \in bodies,
                                   post \in {<<>>, <<SP>>, <<SP, "txt">>}}
    IN  /\ agent.pc = "first"
        /\ \/ \E raw \in ResponsePool :
                 agent' = [agent EXCEPT !.pc = "decide", !.raw = raw, !.ai = Strip(raw),
                                        !.modelCalls = @ + 1]
           \/ agent' = [agent EXCEPT !.pc = "done", !.modelCalls = @ + 1,
                                     !.answer = [kind |-> "model_failed", text |-> <<>>]]
        /\ UNCHANGED <<clock, records, convs, chunks, diskIndex, diskMeta, hasIndex,
                       hasMeta, indexedIds, flag, status, jobs, retr, rres, hist, dres,
                       script, reader, cache>>

\* second round: an ACTION is executed by call_retriever, whose ValueError
\* is not caught here; without an ACTION the response is the answer
AgentAct ==
    /\ agent.pc = "decide"
    /\ LET action_match == ActionMatch(agent.ai)
           r == GetLocalRetriever
           \* date_param as call_retriever reads it
           DateArg(date_param) ==
               CASE date_param \in {<<"None">>, <<"none">>} -> FNone
                 [] date_param = <<"2024-11-25">> -> FYmd(Date(2024, 11, 25))
                 [] date_param = <<"last_month">> -> Flt("last_month", 0, 0, 0, 0, TRUE)
                 [] OTHER -> Flt("junk", 0, 0, 0, 0, TRUE)
       IN  IF action_match.ok
           THEN /\ retr' = r
                /\ \E io \in ServiceIo(r), now \in NowPool :
                      rres' = Call(r, action_match.query, DateArg(action_match.date),
                                   MaxResults, now, io, NoHist)
                /\ agent' = IF rres'.out.kind = "raise"
                            THEN [agent EXCEPT !.pc = "done", !.retrCalls = @ + 1,
                                     !.answer = [kind |-> "exception", text |-> <<>>]]
                            ELSE [agent EXCEPT !.pc = "second", !.retrCalls = @ + 1]
           ELSE /\ agent' = [agent EXCEPT !.pc = "done",
                                          !.answer = [kind |-> "direct", text |-> agent.ai]]
                /\ UNCHANGED <<retr, rres>>
    /\ UNCHANGED <<clock, records, convs, chunks, diskIndex, diskMeta, hasIndex,
                   hasMeta, indexedIds, flag, status, jobs, hist, dres, script, reader, cache>>

\* the model answers from the observation, or the call raises; a final
\* response is a text or an ACTION line
SecondModelCall ==
    LET FinalPool ==
            { <<"txt">>, <<SP, "txt", SP>>,
              <<"ACTION:", SP, "SEARCH", SP, "query=", "\"", "a", "\"">> }
    IN  /\ agent.pc = "second"
        /\ \/ \E final \in FinalPool : agent' = FinalStep(agent, final)
           \/ agent' = [agent EXCEPT !.pc = "done", !.modelCalls = @ + 1,
                                     !.answer = [kind |-> "final_failed", text |-> <<>>]]
        /\ UNCHANGED <<clock, records, convs, chunks, diskIndex, diskMeta, hasIndex,
                       hasMeta, indexedIds, flag, status, jobs, retr, rres, hist, dres,
                       script, reader, cache>>

AgentNext == AgentChat \/ FirstModelCall \/ AgentAct \/ SecondModelCall

SpecAgent == Init /\ [][AgentNext]_vars

(***************************************************************************)
(* Properties of one call_retriever call (SpecRetr).                       *)
(***************************************************************************)
\* C2: for every search whose date filter parses to a range [start, end],
\* every hit returned by the dated search has a non-null date inside the
\* range.  Violated: when the date-filtered candidates are fewer than top_k,
\* search() fills the result up with the candidates the filter rejected.
C2_DatedHitsInRange ==
    LET norm == NormalizeDate(rres.df, rres.now)
        rng  == ParseDateFilter(norm.f, rres.now)
    IN  (/\ rres.valid /\ rres.local
         /\ norm.ok /\ norm.f.k # "none" /\ rng.ok
         /\ rres.out.relax = 0)
        => \A i \in 1..Len(rres.out.hits) :
               /\ rres.out.hits[i].date # NoDate
               /\ DateInRange(rres.out.hits[i].date, rng)

C4_SubstringOfOneIsFirst ==
    LET holders == {i \in 1..Len(retr.meta) : Contains(retr.meta[i].content, rres.query)}
    IN  (/\ rres.valid /\ rres.local /\ rres.df = FNone
         /\ Cardinality(holders) = 1)
        => /\ rres.out.kind = "found"
           /\ \A i \in holders : rres.out.hits[1].id = retr.meta[i].id
           /\ rres.out.hits[1].origin = "keyword_match"
           /\ rres.out.hits[1].distance = 0

\* C4 amended: for a query shorter than 20 characters with no date filter,
\* when exactly one entry of the metadata list passes the match test of the
\* keyword pass (it contains, case-insensitively, the query, or each token
\* of a query of several tokens), the local retriever returns that entry as
\* first hit, with origin keyword and distance 0.
C4_OnlyKeywordMatchIsFirst ==
    LET holders == {i \in 1..Len(retr.meta) :
                        /\ retr.meta[i].content # <<>>
                        /\ KeywordMatch(rres.query, retr.meta[i].content)}
    IN  (/\ rres.valid /\ rres.local /\ rres.df = FNone
         /\ Len(Strip(rres.query)) < KeywordMaxLen
         /\ Cardinality(holders) = 1)
        => /\ rres.out.kind = "found"
           /\ \A i \in holders :
                  /\ rres.out.hits[1].id = retr.meta[i].id
                  /\ rres.out.hits[1].content = retr.meta[i].content
           /\ rres.out.hits[1].origin = "keyword_match"
           /\ rres.out.hits[1].distance = 0

\* the only matching entry is the second of the metadata list, and the
\* vector pass returned the other entry as well
C4_Witness ==
    /\ rres.valid /\ rres.local /\ rres.df = FNone
    /\ Len(Strip(rres.query)) < KeywordMaxLen
    /\ Len(retr.meta) = 2
    /\ {i \in 1..2 : KeywordMatch(rres.query, retr.meta[i].content)} = {2}
    /\ Len(rres.out.hits) = 2
    /\ rres.out.hits[1].origin = "keyword_match"

\* C10: per top-level call the relaxed search is invoked at most once, and
\* only when a date filter was given and the merged result of the dated
\* search was empty.
C10_RelaxAtMostOnce ==
    rres.valid =>
        /\ rres.out.relax <= 1
        /\ rres.out.relax = 1 => (rres.df.k # "none" /\ rres.out.merged = <<>>)

\* a dated search came back empty and the relaxed search returned hits
C10_Witness ==
    /\ rres.valid
    /\ rres.df.k # "none"
    /\ rres.out.relax = 1
    /\ rres.out.kind = "found"

(***************************************************************************)
(* Properties of the index files and of the serving path (SpecServe).      *)
(***************************************************************************)
\* C1: in every state a reader can observe, the metadata list on disk has
\* as many entries as the index on disk has vectors.  Violated:
\* delete_conversation rewrites the metadata file and leaves the index file
\* as it is until the rebuild has run.
C1_MetaMatchesIndex ==
    (hasIndex /\ hasMeta) => Len(diskMeta) = Len(diskIndex)

\* C5: once the rebuild submitted by a deletion has completed, no later
\* retrieval returns a hit whose id is, or is derived from, a deleted id.
\* Violated: the service keeps the retriever it loaded before the deletion.
C5_NoStaleHit ==
    rres.valid =>
        \A i \in 1..Len(rres.out.hits) :
            /\ rres.out.hits[i].id \notin rres.purged
            /\ ParentId(rres.out.hits[i].id) \notin rres.purged

\* C6: once the incremental run submitted by an ingest has completed and
\* has put the new record into the index files, a later retrieval whose
\* query matches the new record and no other record returns the new record.  Violated: the service keeps the retriever it
\* loaded before the ingest.
C6_FreshRecordRetrieved ==
    rres.valid =>
        \A c \in rres.fresh :
            (/\ KeywordMatch(rres.query, c.content)
             /\ \A o \in Range(chunks) : KeywordMatch(rres.query, o.content) => o = c)
            => \E i \in 1..Len(rres.out.hits) : rres.out.hits[i].id = c.id

(***************************************************************************)
(* Properties of the rebuild supervisor (SpecSup).                         *)
(***************************************************************************)
\* C7: at most one indexer child (full or incremental) is running at any
\* time.  Violated: jobs of different ids run side by side in the
\* scheduler's pool, and nothing but the job id keeps them apart.
C7_OneRebuildAtATime ==
    Cardinality({j \in jobs : j.pc \in {"child_load", "write_index", "write_meta",
                                        "write_ids", "hung"}}) <= 1

\* C8: the status only changes along idle -> running -> (completed or
\* failed) -> idle.  Violated: no code path writes idle, a run starts from
\* completed or failed.
C8_StatusCycle ==
    [][status'.st # status.st =>
          <<status.st, status'.st>> \in {<<"idle", "running">>, <<"running", "completed">>,
                                         <<"running", "failed">>, <<"completed", "idle">>,
                                         <<"failed", "idle">>}]_vars

\* C9: a status of running eventually becomes completed or failed; so while
\* the status is running there is a full rebuild, pending or running, whose
\* child can still exit.  Violated: process.wait() has no timeout, and the
\* manual rebuild returns without a status write when its flag is gone.
C9_RunningHasLiveRebuild ==
    status.st = "running" => \E j \in jobs : j.kind = "full" /\ j.pc # "hung"

(***************************************************************************)
(* Properties of the relaxation and of the date filters (SpecRetr).        *)
(***************************************************************************)
\* C11: when the dated search is empty and the relaxed search returns hits,
\* the call returns exactly those hits, whatever their content; a relaxed
\* search without hits is not returned, the call ends in the no-record
\* sentinel.  Violated: the relaxed envelope is tested for the substring
\* "not found", which the content of a hit can hold and an error text lacks.
C11_RelaxedHitsReturned ==
    LET relaxed == CallRetriever(retr, rres.query, FNone, rres.k, rres.now, rres.io, 2)
    IN  (rres.valid /\ rres.out.relax = 1) =>
            /\ relaxed.hits # <<>> =>
                   (rres.out.kind = "found" /\ rres.out.hits = relaxed.hits)
            /\ relaxed.hits = <<>> => rres.out.kind = "none"

\* C12: a date filter that fails to parse is treated as no filter: the
\* retrieval returns the records, in the order, of the same retrieval with
\* no filter, the query being embedded in both.  Violated: the keyword pass tests the record date against the
\* unparsable string with startswith and so matches no record.
C12_UnparsableFilterIsNoFilter ==
    LET norm   == NormalizeDate(rres.df, rres.now)
        plain  == CallRetriever(retr, rres.query, FNone, rres.k, rres.now, rres.io, 1)
        IdsOf(hits) == [i \in 1..Len(hits) |-> hits[i].id]
    IN  (/\ rres.valid /\ rres.local
         /\ ~rres.io.embedFail[1]
         /\ norm.ok /\ norm.f.k # "none"
         /\ ~ParseDateFilter(norm.f, rres.now).ok)
        => IdsOf(rres.out.hits) = IdsOf(plain.hits)

(***************************************************************************)
(* Properties of the date filters (SpecDate).                              *)
(***************************************************************************)
\* C13: the filter N_days_ago selects the last N days, today included, at
\* any time of day: with N = 1 exactly the records dated today, with N = 2
\* exactly those dated today or yesterday.  Violated: the start of the range
\* keeps the time of day of 'now' and a record date is read as midnight, so
\* the first day of the range is lost.
C13_DaysAgoInclusive ==
    (dres.valid /\ dres.f.k = "days_ago" /\ dres.f.n \in 1..2) =>
        \A date \in {DateOf(MinusDays(dres.now, k)) : k \in -1..15} :
            DateInRange(date, dres.rng)
                <=> date \in {DateOf(MinusDays(dres.now, k)) : k \in 0..(dres.f.n - 1)}

\* C14: whenever _parse_date_filter returns a range (start, end),
\* start <= end.  Violated: 0_days_ago starts one day after 'now', and
\* 0_months_ago on the first of a month starts today and ends yesterday.
C14_RangeOrdered ==
    (dres.valid /\ dres.raw.ok) => DtLE(dres.raw.s, dres.raw.e)

\* C15: a retrieval with the filter last_week selects exactly the records
\* dated Monday to Sunday of the week before the week of 'now'.  Violated:
\* normalize_date replaces last_week by the single day seven days before
\* 'now', and the search filters on that day.
C15_LastWeekIsPreviousWeek ==
    (dres.valid /\ dres.f.k = "last_week") =>
        \A date \in {DateOf(MinusDays(dres.now, k)) : k \in -1..15} :
            DateInRange(date, dres.rng)
                <=> date \in {DateOf(MinusDays(dres.now, Weekday(dres.now) + k)) : k \in 1..7}

\* C16: in every merged result list of the local hybrid retriever (the list
\* of the call itself and the list its relaxed call returns) no vector hit
\* precedes a keyword hit, vector hits are in ascending distance order, and
\* two keyword hits stand in the order of two entries of the metadata list.
C16_MergedListOrdered ==
    LET IsEntry(p, h) ==
            /\ retr.meta[p].id = h.id
            /\ retr.meta[p].content = h.content
            /\ retr.meta[p].date = h.date
        Ordered(l) ==
            \A i, j \in 1..Len(l) : i < j =>
                /\ ~(l[i].origin = "vector_search" /\ l[j].origin = "keyword_match")
                /\ (l[i].origin = "vector_search" /\ l[j].origin = "vector_search")
                       => l[i].distance <= l[j].distance
                /\ (l[i].origin = "keyword_match" /\ l[j].origin = "keyword_match")
                       => \E p, q \in 1..Len(retr.meta) :
                              p < q /\ IsEntry(p, l[i]) /\ IsEntry(q, l[j])
    IN  (rres.valid /\ rres.local) => (Ordered(rres.out.merged) /\ Ordered(rres.out.hits))

\* a merged list of a keyword hit followed by a vector hit, where the vector
\* hit is the earlier entry of the metadata list and the nearer vector
C16_Witness ==
    /\ rres.valid /\ rres.local
    /\ Len(rres.out.merged) = 2
    /\ rres.out.merged[1].origin = "keyword_match"
    /\ rres.out.merged[2].origin = "vector_search"
    /\ Len(retr.meta) = 2
    /\ retr.meta[1].id = rres.out.merged[2].id
    /\ retr.meta[2].id = rres.out.merged[1].id
    /\ rres.io.dist[1] < rres.io.dist[2]

\* C17: one chat request calls call_retriever at most once and the chat
\* model at most twice; when the first response holds no ACTION word, the
\* answer is that response (stripped), after one model call and no search.
C17_OneSearchTwoModelCalls ==
    /\ agent.retrCalls <= 1
    /\ agent.modelCalls <= 2
    /\ (/\ agent.pc = "done"
        /\ agent.answer.kind \notin {"no_token", "model_failed"}
        /\ \A i \in 1..Len(agent.raw) : agent.raw[i] \notin ActionWords)
       => (/\ agent.answer = [kind |-> "direct", text |-> Strip(agent.raw)]
           /\ agent.retrCalls = 0
           /\ agent.modelCalls = 1
           /\ ~rres.valid)

\* a request answered after one search and two model calls, whose final
\* response itself holds an ACTION line
C17_Witness ==
    /\ agent.pc = "done"
    /\ agent.answer.kind = "final"
    /\ ActionMatch(agent.answer.text).ok
    /\ agent.retrCalls = 1
    /\ agent.modelCalls = 2
    /\ rres.valid

\* C18: when every query embedding of a local retrieval fails, the
\* observation is an error text: neither the found-records envelope nor the
\* no-record sentinel.
C18_EmbedFailureIsErrorText ==
    (rres.valid /\ rres.local /\ rres.io.embedFail = <<TRUE, TRUE>>)
        => rres.out.kind \notin {"found", "none"}

\* C19: no two records of the record log have the same id, and the chunk
\* of every record of the log is in the chunk store.
C19_UniqueIdsAllSynced ==
    /\ \A i, j \in 1..Len(records) : i # j => records[i].id # records[j].id
    /\ \A i \in 1..Len(records) : rag_chunk(records[i]) \in Range(chunks)

\* C20: once the script has completed, its record is in the record file
\* and no record the service wrote is lost from it: every chunk of the
\* chunk store, which only the service writes, has its record in the file.
\* The script's id is not one of the service's, so that the two records
\* are told apart.
C20_NoLostUpdate ==
    (script.pc = "done" /\ script.record.id \notin Ids(chunks)) =>
        /\ script.record \in Range(records)
        /\ \A c \in Range(chunks) : \E i \in 1..Len(records) : rag_chunk(records[i]) = c

\* C21: a deletion removes every deleted record from the chunk store,
\* every metadata entry derived from it (the _part_k sub-chunks included)
\* from the metadata list and its ids from the indexed-ids set, sets the
\* dirty flag and submits a rebuild.
C21_DeleteRemovesEverywhere ==
    [][\A conv \in ConvPool :
          (conv \in convs /\ conv \notin convs') =>
              LET deleted == {records[i].id : i \in {k \in 1..Len(records) :
                                                       records[k].conv = conv}}
              IN  /\ \A id \in Ids(chunks') : id \notin deleted
                  /\ \A id \in Ids(diskMeta') : ParentId(id) \notin deleted
                  /\ \A id \in indexedIds' : ParentId(id) \notin deleted
                  /\ deleted # {} =>
                         /\ flag'
                         /\ \E j \in jobs' : j.kind = "full" /\ j.pc = "pending"]_vars

\* C22: no two entries of the metadata list on disk have the same id.
C22_MetaIdsUnique ==
    \A i, k \in 1..Len(diskMeta) : i # k => diskMeta[i].id # diskMeta[k].id

\* C23: when the dirty flag is absent and no rebuild job is pending or
\* running, every chunk of the chunk store with non-empty content has an
\* entry in the index on disk.
C23_CleanMeansIndexed ==
    (~flag /\ jobs = {}) =>
        \A c \in Range(chunks) :
            c.content # <<>> =>
                /\ hasIndex /\ hasMeta
                /\ \E i \in 1..Len(diskMeta) : ParentId(diskMeta[i].id) = c.id

\* C24: the index and the metadata on disk are one pair, the old one or
\* the new one, also after a run that failed or was interrupted: when no
\* indexer is between its two writes, both files exist or neither, and the
\* index holds the vectors of the metadata entries, position by position.
C24_PairOldOrNew ==
    (\A j \in jobs : j.pc # "write_meta") =>
        /\ hasIndex <=> hasMeta
        /\ diskIndex = Vectors(diskMeta)

\* C25: every id of the metadata list is in the indexed-ids set; in
\* particular, when a full rebuild ends successfully, the indexed-ids set
\* holds the id of every sub-chunk the rebuild emitted and of every entry
\* of the metadata list on disk.
C25_FullRebuildSetsIndexedIds ==
    [][\A j \in jobs :
          (j.kind = "full" /\ j.pc = "exit0" /\ j \notin jobs') =>
              (Ids(j.meta) \cup Ids(diskMeta')) \subseteq indexedIds']_vars

\* C26: an incremental run only appends.  When it writes the index, the
\* vectors that were on disk keep their positions and the index grows by
\* exactly the number of chunks the run embedded; when it writes the
\* metadata, the entries that were on disk keep their positions.
C26_IncrementalOnlyAppends ==
    [][\A j \in jobs :
          j.kind = "incr" /\ j \notin jobs' =>
              /\ (j.pc = "write_index" /\ [j EXCEPT !.pc = "write_meta"] \in jobs') =>
                     /\ Len(diskIndex) <= Len(diskIndex')
                     /\ SubSeq(diskIndex', 1, Len(diskIndex)) = diskIndex
                     /\ Len(diskIndex') = Len(diskIndex) + Cardinality(j.ids \ indexedIds)
              /\ (j.pc = "write_meta" /\ [j EXCEPT !.pc = "write_ids"] \in jobs') =>
                     /\ Len(diskMeta) <= Len(diskMeta')
                     /\ SubSeq(diskMeta', 1, Len(diskMeta)) = diskMeta]_vars

\* C29: every entry of the metadata list on disk has a content of at most
\* CHUNK_SIZE characters, whichever indexer wrote it.
C29_MetaContentBounded ==
    \A i \in 1..Len(diskMeta) : Len(diskMeta[i].content) <= CHUNK_SIZE

\* C28: when the child of a full rebuild has exited with a code other than
\* 0, the step of the supervisor that ends the run sets the status to
\* failed, not to completed, and leaves the dirty flag as it is.
C28_FailedRunKeepsFlag ==
    [][\A j \in jobs :
          (j.kind = "full" /\ j.pc = "exit1" /\ j \notin jobs') =>
              /\ status'.st = "failed"
              /\ flag' = flag]_vars

\* a run has failed: the status reads failed and the flag is still set
C28_Witness ==
    status.st = "failed" /\ flag /\ jobs = {}

\* C27: during one full rebuild, the progress written to the status record
\* while the status is running never decreases from one update to the
\* next.
C27_ProgressNeverDecreases ==
    [][(status.st = "running" /\ status'.st = "running") =>
           status'.progress >= status.progress]_vars

\* C30: the embedding cache holds at most cache_size entries, and the
\* entry a miss removes from the cache is the one whose last use, hit or
\* insertion, is the oldest.
C30_CacheBoundedAndLru ==
    [][/\ Len(cache'.order) <= CacheSize
       /\ \A t \in Range(cache.order) \ Range(cache'.order) : t = Head(cache.uses)]_vars
====
